---- MODULE Spec2Model ----
(***************************************************************************)
(* lambda_aws_finops.py: one invocation of lambda_handler.  The handler    *)
(* queries the billing API, reshapes the answer into a month -> service -> *)
(* amount table, compares the two latest months for the ten costliest      *)
(* services, renders a bar chart, builds a block report and POSTs it to    *)
(* the webhook named by SLACK_WEBHOOK_URL.                                  *)
(*                                                                         *)
(* Python values are represented as follows.  None is the record None and  *)
(* a value v that may be None is Some(v).  A dict is the sequence of its   *)
(* [key, value] items in insertion order.  A float amount is the integer   *)
(* it denotes.  A "YYYY-MM" string is the sequence of its seven character  *)
(* codes.  A formatted message is the sequence of its parts.               *)
(***************************************************************************)
EXTENDS Integers, Sequences, FiniteSets, TLC

VARIABLES
    pc,                 \* position of lambda_handler
    calls,              \* the functions and outbound calls made so far, in order
    ResultsByTime,      \* what the billing API holds for the queried period
    api,                \* what the billing API did: "pending", "data", "ClientError", "BotoCoreError"
    cost_data,          \* analyze_costs: cost_data
    monthly_costs,      \* lambda_handler: monthly_costs
    current_month,      \* lambda_handler: current_month
    previous_month,     \* lambda_handler: previous_month
    top_10_comparison,  \* lambda_handler: top_10_comparison
    chart,              \* create_ascii_chart: one [month, cost, bar_length] per rendered month
    report,             \* lambda_handler: report
    slack_webhook_url,  \* send_to_slack: slack_webhook_url
    http,               \* what the webhook did with the POST
    slack_response,     \* lambda_handler: slack_response
    exc,                \* the exception travelling to the handler's except clause
    result              \* the value lambda_handler returns

vars == <<pc, calls, ResultsByTime, api, cost_data, monthly_costs, current_month, previous_month,
          top_10_comparison, chart, report, slack_webhook_url, http,
          slack_response, exc, result>>

(***************************************************************************)
(* Bounds of the model.                                                    *)
(***************************************************************************)
\* Size of a billing answer: its month entries plus all their groups.
MaxSize == 4
\* Most services in the latest month of a wide billing answer.
MaxWide == 11

(***************************************************************************)
(* Python values.                                                          *)
(***************************************************************************)
None == [isNone |-> TRUE]
Some(v) == [isNone |-> FALSE, val |-> v]

Min(a, b) == IF a <= b THEN a ELSE b
Abs(a) == IF a < 0 THEN -a ELSE a
Range(s) == {s[i] : i \in 1..Len(s)}
Count(s, x) == Cardinality({i \in 1..Len(s) : s[i] = x})

\* dict: d[k] = v keeps the position of a key already present.
DictKeys(d) == [i \in 1..Len(d) |-> d[i].key]
DictHas(d, k) == \E i \in 1..Len(d) : d[i].key = k
DictSet(d, k, v) ==
    IF DictHas(d, k)
    THEN [i \in 1..Len(d) |-> IF d[i].key = k THEN [key |-> k, value |-> v] ELSE d[i]]
    ELSE Append(d, [key |-> k, value |-> v])
DictLookup(d, k) == d[CHOOSE i \in 1..Len(d) : d[i].key = k].value
DictGet(d, k, default) == IF DictHas(d, k) THEN DictLookup(d, k) ELSE default

(***************************************************************************)
(* The environment: billing answers, webhook URLs, webhook answers.        *)
(***************************************************************************)
ServiceNames == <<"EC2", "S3", "RDS", "Lambda", "DynamoDB", "CloudFront", "SNS",
                  "SQS", "ECS", "EKS", "Route53", "KMS", "Glue", "Athena">>
Services == {ServiceNames[1], ServiceNames[2]}
Amounts == {-1, 0, 1, 3}
WideAmounts == {1, 2}
Dates == { [y |-> 2023, m |-> 12, d |-> 1], [y |-> 2024, m |-> 1, d |-> 1],
           [y |-> 2024, m |-> 1, d |-> 15], [y |-> 2024, m |-> 2, d |-> 1] }

GroupKeys(groups) == {groups[i].Key : i \in 1..Len(groups)}

\* Month entries plus groups of a billing answer.
RECURSIVE ResponseSize(_)
ResponseSize(r) ==
    IF r = <<>> THEN 0 ELSE 1 + Len(r[1].Groups) + ResponseSize(Tail(r))

\* The two months every wide billing answer starts from.
WideStart ==
    << [Start |-> [y |-> 2024, m |-> 1, d |-> 1],
        Groups |-> <<[Key |-> ServiceNames[1], Amount |-> 1]>>],
       [Start |-> [y |-> 2024, m |-> 2, d |-> 1], Groups |-> <<>>] >>

\* os.environ.get("SLACK_WEBHOOK_URL"): unset, empty, not a URL, a URL.
WebhookUrls == {"<unset>", "", "hooks.slack.com/services/T", "https://hooks.slack.com/services/T"}
EnvGet(u) == IF u = "<unset>" THEN None ELSE Some(u)
\* urllib.request.Request raises ValueError for a URL without a scheme.
UrlHasScheme(u) == u = "https://hooks.slack.com/services/T"

\* urlopen returns for a 2xx status and raises for everything else.
StatusCodes == {200, 204}
Bodies == {"", "ok"}

(***************************************************************************)
(* get_cost_data, analyze_costs.                                           *)
(***************************************************************************)
\* The code of "-", below the codes of the digits as in ASCII.
Dash == -1
Digits4(n) == <<n \div 1000, (n \div 100) % 10, (n \div 10) % 10, n % 10>>
Digits2(n) == <<n \div 10, n % 10>>
\* datetime.strptime(start, "%Y-%m-%d").strftime("%Y-%m")
MonthKey(date) == Digits4(date.y) \o <<Dash>> \o Digits2(date.m)

\* str < str
StrLess(a, b) ==
    \E i \in 1..Min(Len(a), Len(b)) + 1 :
        /\ \A j \in 1..(i - 1) : a[j] = b[j]
        /\ IF i <= Min(Len(a), Len(b)) THEN a[i] < b[i] ELSE Len(a) < Len(b) /\ i = Len(a) + 1

\* float(item["Metrics"]["UnblendedCost"]["Amount"])
ToFloat(amount) == amount

\* {item["Keys"][0]: float(...) for item in month_data["Groups"]}
RECURSIVE GroupsDict(_)
GroupsDict(groups) ==
    IF groups = <<>> THEN <<>>
    ELSE LET n == Len(groups)
         IN  DictSet(GroupsDict(SubSeq(groups, 1, n - 1)), groups[n].Key, ToFloat(groups[n].Amount))

\* for month_data in cost_data: monthly_costs[month] = {...}
RECURSIVE BuildMonthlyCosts(_)
BuildMonthlyCosts(data) ==
    IF data = <<>> THEN <<>>
    ELSE LET n == Len(data)
         IN  DictSet(BuildMonthlyCosts(SubSeq(data, 1, n - 1)),
                     MonthKey(data[n].Start), GroupsDict(data[n].Groups))

\* x goes behind every element that is not greater than it.
RECURSIVE InsertAsc(_, _)
InsertAsc(s, x) ==
    IF s = <<>> THEN <<x>>
    ELSE IF StrLess(x, s[1]) THEN <<x>> \o s
    ELSE <<s[1]>> \o InsertAsc(Tail(s), x)

\* The keys in the order of the dict, as if sorted() were left out.
Unsorted(s) == s

\* sorted(keys)
RECURSIVE Sorted(_)
Sorted(s) ==
    IF s = <<>> THEN <<>> ELSE InsertAsc(Sorted(SubSeq(s, 1, Len(s) - 1)), s[Len(s)])

\* x goes behind every item whose amount is not less than its own.
RECURSIVE InsertDesc(_, _)
InsertDesc(s, x) ==
    IF s = <<>> THEN <<x>>
    ELSE IF x.value > s[1].value THEN <<x>> \o s
    ELSE <<s[1]>> \o InsertDesc(Tail(s), x)

\* sorted(items, key=lambda x: x[1], reverse=True): stable
RECURSIVE SortedByAmountDesc(_)
SortedByAmountDesc(items) ==
    IF items = <<>> THEN <<>>
    ELSE InsertDesc(SortedByAmountDesc(SubSeq(items, 1, Len(items) - 1)), items[Len(items)])

TopN == 10
\* [10:] for [:10]
AfterTen(s) == SubSeq(s, TopN + 1, Len(s))
\* sorted(...)[:10]
FirstTen(s) == SubSeq(s, 1, Min(TopN, Len(s)))
\* The first ten items as the API lists them, the sort left out.
CurrentTop10Unsorted(items) == SubSeq(items, 1, Min(TopN, Len(items)))
CurrentTop10(items) == FirstTen(SortedByAmountDesc(items))

Percent == 100
Infinity == [inf |-> TRUE, num |-> 0, den |-> 1]
\* (change / previous_cost * 100) if previous_cost > 0 else float("inf"),
\* the quotient kept exact as num / den
PercentChange(change, previous_cost) ==
    IF previous_cost > 0
    THEN [inf |-> FALSE, num |-> change * Percent, den |-> previous_cost]
    ELSE Infinity

\* months[-1], months[-2]
LastMonth(months) == months[Len(months)]
SecondLastMonth(months) == months[Len(months) - 1]

\* for service, current_cost in current_top_10: top_10_comparison[service] = {...}
RECURSIVE Compare(_, _)
Compare(top, previous) ==
    IF top = <<>> THEN <<>>
    ELSE LET n == Len(top)
             service == top[n].key
             current_cost == top[n].value
             previous_cost == DictGet(previous, service, 0)
             change == current_cost - previous_cost
         IN  DictSet(Compare(SubSeq(top, 1, n - 1), previous), service,
                     [current |-> current_cost, previous |-> previous_cost,
                      change |-> change,
                      percent_change |-> PercentChange(change, previous_cost)])

\* if not cost_data
NoCostData(data) == data.isNone \/ data.val = <<>>

(***************************************************************************)
(* create_ascii_chart, create_report.                                      *)
(***************************************************************************)
\* sum(monthly_costs[month].values())
RECURSIVE SumValues(_)
SumValues(d) == IF d = <<>> THEN 0 ELSE d[1].value + SumValues(Tail(d))

\* max(total_costs)
MaxOf(s) == CHOOSE x \in Range(s) : \A y \in Range(s) : y <= x

chart_width == 20
\* int(q) for the quotient q = num / den: rounds toward zero
IntOfQuotient(num, den) ==
    IF (num >= 0) = (den > 0) THEN Abs(num) \div Abs(den) ELSE -(Abs(num) \div Abs(den))
\* int(cost / max_cost) * chart_width: the ratio truncated before it is scaled
BarLengthOfTruncatedRatio(cost, max_cost) == IntOfQuotient(cost, max_cost) * chart_width
\* int((cost / max_cost) * chart_width)
BarLength(cost, max_cost) == IntOfQuotient(cost * chart_width, max_cost)

\* months = sorted(...); total_costs = [...]; one chart entry per month
ChartOf(table) ==
    LET months == Sorted(DictKeys(table))
        total_costs == [i \in 1..Len(months) |-> SumValues(DictLookup(table, months[i]))]
        max_cost == MaxOf(total_costs)
    IN  [i \in 1..Len(months) |->
            [month |-> months[i], cost |-> total_costs[i],
             bar_length |-> BarLength(total_costs[i], max_cost)]]

\* cost / max_cost raises ZeroDivisionError when max_cost is 0
ChartRaises(table) ==
    LET months == Sorted(DictKeys(table))
        total_costs == [i \in 1..Len(months) |-> SumValues(DictLookup(table, months[i]))]
    IN  MaxOf(total_costs) = 0

ChangeIcon(change) == IF change > 0 THEN "up" ELSE IF change < 0 THEN "down" ELSE "flat"

\* the blocks of create_report
ReportOf(comparison, ascii_chart, current, previous) ==
    << [type |-> "header", text |-> <<"AWS Cost Analysis", current, previous>>],
       [type |-> "section", text |-> <<"Top 10 Most Expensive Services Comparison">>] >>
    \o [i \in 1..Len(comparison) |->
          [type |-> "section",
           text |-> <<comparison[i].key, comparison[i].value.current,
                      comparison[i].value.previous, ChangeIcon(comparison[i].value.change),
                      Abs(comparison[i].value.change), comparison[i].value.percent_change>>]]
    \o << [type |-> "divider", text |-> <<>>],
          [type |-> "header", text |-> <<"6-Month Cost Overview">>],
          [type |-> "section", text |-> <<ascii_chart>>] >>

(***************************************************************************)
(* send_to_slack, lambda_handler.                                          *)
(***************************************************************************)
\* if top_10_comparison == {}
NoComparisonEmptyOnly(comparison) == ~comparison.isNone /\ comparison.val = <<>>
\* if not top_10_comparison
NoComparison(comparison) == comparison.isNone \/ comparison.val = <<>>
\* if slack_webhook_url is None
NoWebhookUrlUnsetOnly(url) == url.isNone
\* if not slack_webhook_url
NoWebhookUrl(url) == url.isNone \/ url.val = ""
\* if slack_response
Truthy(response) == ~response.isNone /\ response.val # ""

\* what the billing client can raise; get_cost_data: except ClientError
BillingErrors == {"ClientError", "BotoCoreError"}
CaughtByFetcher(e) == e = "ClientError"

\* lambda_handler: except Exception
ExceptionClasses == {"ClientError", "BotoCoreError", "IndexError", "ZeroDivisionError",
                     "AttributeError", "ValueError", "URLError"}
\* except LookupError
CatchesLookupError(e) == e = "IndexError"
Catches(e) == e \in ExceptionClasses

\* str(e)
ExcMessage(e) ==
    CASE e = "IndexError" -> "list index out of range"
      [] e = "ZeroDivisionError" -> "float division by zero"
      [] e = "ValueError" -> "unknown url type"
      [] e = "AttributeError" -> "'NoneType' object has no attribute 'keys'"
      [] OTHER -> e

\* json.dumps of a string: the text between double quotes
JsonDumps(parts) == <<"\"">> \o parts \o <<"\"">>
Response(code, parts) == Some([statusCode |-> code, body |-> JsonDumps(parts)])

FetchErrorText == <<"Error fetching cost data">>
SlackErrorText == <<"Error sending report to Slack">>
SuccessText == <<"Report sent to Slack successfully">>
UnexpectedText(e) == <<"Unexpected error: ", ExcMessage(e)>>

InitWith(held) ==
    /\ pc = "fetch"
    /\ calls = <<>>
    /\ ResultsByTime = held
    /\ api = "pending"
    /\ cost_data = None
    /\ monthly_costs = None
    /\ current_month = None
    /\ previous_month = None
    /\ top_10_comparison = None
    /\ chart = None
    /\ report = None
    /\ slack_webhook_url = None
    /\ http = [kind |-> "none"]
    /\ slack_response = None
    /\ exc = "none"
    /\ result = None

Init == InitWith(<<>>)

InitWide == InitWith(WideStart)

\* Everything but the billing data.
handler == <<pc, calls, api, cost_data, monthly_costs, current_month, previous_month,
             top_10_comparison, chart, report, slack_webhook_url, http,
             slack_response, exc, result>>

\* The billing data gains a month entry, in any position of the calendar.
BillingAddsMonth ==
    /\ pc = "fetch"
    /\ ResponseSize(ResultsByTime) < MaxSize
    /\ \E d \in Dates : ResultsByTime' = Append(ResultsByTime, [Start |-> d, Groups |-> <<>>])
    /\ UNCHANGED handler

\* The last month entry gains a service (the API groups by service: the keys
\* of one entry are distinct).
BillingAddsGroup ==
    /\ pc = "fetch"
    /\ ResultsByTime # <<>>
    /\ ResponseSize(ResultsByTime) < MaxSize
    /\ \E s \in Services \ GroupKeys(ResultsByTime[Len(ResultsByTime)].Groups), a \in Amounts :
          ResultsByTime' = [ResultsByTime EXCEPT ![Len(ResultsByTime)].Groups =
                               Append(@, [Key |-> s, Amount |-> a])]
    /\ UNCHANGED handler

\* The latest month gains the next service, up to MaxWide of them.
BillingAddsWideGroup ==
    /\ pc = "fetch"
    /\ Len(ResultsByTime[Len(ResultsByTime)].Groups) < MaxWide
    /\ \E a \in WideAmounts :
          ResultsByTime' = [ResultsByTime EXCEPT ![Len(ResultsByTime)].Groups =
                               Append(@, [Key |-> ServiceNames[Len(@) + 1], Amount |-> a])]
    /\ UNCHANGED handler

\* analyze_costs -> get_cost_data: the billing query returns ResultsByTime
BillingReturns ==
    /\ pc = "fetch"
    /\ cost_data' = Some(ResultsByTime)
    /\ api' = "data"
    /\ calls' = calls \o <<"analyze_costs", "get_cost_and_usage">>
    /\ pc' = "analyze"
    /\ UNCHANGED <<ResultsByTime, monthly_costs, current_month, previous_month,
                   top_10_comparison, chart, report, slack_webhook_url, http,
                   slack_response, exc, result>>

\* analyze_costs -> get_cost_data: the billing query raises
BillingRaises ==
    /\ pc = "fetch"
    /\ \E e \in BillingErrors :
          /\ api' = e
          /\ IF CaughtByFetcher(e)
             THEN pc' = "analyze" /\ exc' = exc
             ELSE pc' = "except" /\ exc' = e
    /\ cost_data' = None
    /\ calls' = calls \o <<"analyze_costs", "get_cost_and_usage">>
    /\ UNCHANGED <<ResultsByTime, monthly_costs, current_month, previous_month,
                   top_10_comparison, chart, report, slack_webhook_url, http,
                   slack_response, result>>

\* analyze_costs from "if not cost_data" to its return
AnalyzeCosts ==
    /\ pc = "analyze"
    /\ IF NoCostData(cost_data)
       THEN /\ pc' = "check"
            /\ UNCHANGED <<monthly_costs, current_month, previous_month,
                           top_10_comparison, exc>>
       ELSE LET table == BuildMonthlyCosts(cost_data.val)
                months == Sorted(DictKeys(table))
            IN  IF Len(months) < 2
                THEN /\ pc' = "except"
                     /\ exc' = "IndexError"
                     /\ UNCHANGED <<monthly_costs, current_month, previous_month,
                                    top_10_comparison>>
                ELSE LET current == LastMonth(months)
                         previous == SecondLastMonth(months)
                     IN  /\ monthly_costs' = Some(table)
                         /\ current_month' = Some(current)
                         /\ previous_month' = Some(previous)
                         /\ top_10_comparison' =
                               Some(Compare(CurrentTop10(DictLookup(table, current)),
                                            DictLookup(table, previous)))
                         /\ pc' = "check"
                         /\ exc' = exc
    /\ UNCHANGED <<ResultsByTime, calls, api, cost_data, chart, report, slack_webhook_url, http,
                   slack_response, result>>

\* lambda_handler: if not top_10_comparison: return 500
CheckComparison ==
    /\ pc = "check"
    /\ IF NoComparison(top_10_comparison)
       THEN pc' = "done" /\ result' = Response(500, FetchErrorText)
       ELSE pc' = "report" /\ result' = result
    /\ UNCHANGED <<ResultsByTime, calls, api, cost_data, monthly_costs, current_month, previous_month,
                   top_10_comparison, chart, report, slack_webhook_url, http,
                   slack_response, exc>>

\* create_report, create_ascii_chart first
CreateReport ==
    /\ pc = "report"
    /\ calls' = calls \o <<"create_report", "create_ascii_chart">>
    /\ IF monthly_costs.isNone \/ top_10_comparison.isNone
       THEN pc' = "except" /\ exc' = "AttributeError" /\ UNCHANGED <<chart, report>>
       ELSE IF ChartRaises(monthly_costs.val)
       THEN pc' = "except" /\ exc' = "ZeroDivisionError" /\ UNCHANGED <<chart, report>>
       ELSE /\ chart' = Some(ChartOf(monthly_costs.val))
            /\ report' = Some(ReportOf(top_10_comparison.val, ChartOf(monthly_costs.val),
                                       current_month.val, previous_month.val))
            /\ pc' = "send"
            /\ exc' = exc
    /\ UNCHANGED <<ResultsByTime, api, cost_data, monthly_costs, current_month, previous_month,
                   top_10_comparison, slack_webhook_url, http, slack_response, result>>

\* send_to_slack up to the built request
SendToSlack ==
    /\ pc = "send"
    /\ calls' = Append(calls, "send_to_slack")
    /\ \E u \in WebhookUrls :
          /\ slack_webhook_url' = EnvGet(u)
          /\ IF NoWebhookUrl(EnvGet(u))
             THEN pc' = "respond" /\ exc' = exc
             ELSE IF ~UrlHasScheme(u)
             THEN pc' = "except" /\ exc' = "ValueError"
             ELSE pc' = "post" /\ exc' = exc
    /\ slack_response' = None
    /\ UNCHANGED <<ResultsByTime, api, cost_data, monthly_costs, current_month, previous_month,
                   top_10_comparison, chart, report, http, result>>

\* urlopen raises: except Exception: return None
PostRaises ==
    /\ pc = "post"
    /\ calls' = Append(calls, "urlopen")
    /\ http' = [kind |-> "exception"]
    /\ slack_response' = None
    /\ pc' = "respond"
    /\ UNCHANGED <<ResultsByTime, api, cost_data, monthly_costs, current_month, previous_month,
                   top_10_comparison, chart, report, slack_webhook_url, exc, result>>

\* As PostAnswered, the POST tried again after a code other than 200.
PostAnsweredRetrying ==
    /\ pc = "post"
    /\ calls' = Append(calls, "urlopen")
    /\ \E code \in StatusCodes, body \in Bodies :
          /\ http' = [kind |-> "response", code |-> code, body |-> body]
          /\ slack_response' = IF code # 200 THEN None ELSE Some(body)
          /\ pc' = IF code # 200 THEN "post" ELSE "respond"
    /\ UNCHANGED <<ResultsByTime, api, cost_data, monthly_costs, current_month, previous_month,
                   top_10_comparison, chart, report, slack_webhook_url, exc, result>>

\* urlopen returns a response: None unless its code is 200, else response.read()
PostAnswered ==
    /\ pc = "post"
    /\ calls' = Append(calls, "urlopen")
    /\ \E code \in StatusCodes, body \in Bodies :
          /\ http' = [kind |-> "response", code |-> code, body |-> body]
          /\ slack_response' = IF code # 200 THEN None ELSE Some(body)
    /\ pc' = "respond"
    /\ UNCHANGED <<ResultsByTime, api, cost_data, monthly_costs, current_month, previous_month,
                   top_10_comparison, chart, report, slack_webhook_url, exc, result>>

\* lambda_handler: if slack_response: return 200 else: return 500
Respond ==
    /\ pc = "respond"
    /\ result' = IF Truthy(slack_response)
                 THEN Response(200, SuccessText)
                 ELSE Response(500, SlackErrorText)
    /\ pc' = "done"
    /\ UNCHANGED <<ResultsByTime, calls, api, cost_data, monthly_costs, current_month, previous_month,
                   top_10_comparison, chart, report, slack_webhook_url, http,
                   slack_response, exc>>

\* lambda_handler: except Exception as e: return 500
HandleException ==
    /\ pc = "except"
    /\ IF Catches(exc)
       THEN pc' = "done" /\ result' = Response(500, UnexpectedText(exc))
       ELSE pc' = "raised" /\ result' = result
    /\ UNCHANGED <<ResultsByTime, calls, api, cost_data, monthly_costs, current_month, previous_month,
                   top_10_comparison, chart, report, slack_webhook_url, http,
                   slack_response, exc>>

Next ==
    \/ BillingAddsMonth
    \/ BillingAddsGroup
    \/ BillingReturns
    \/ BillingRaises
    \/ AnalyzeCosts
    \/ CheckComparison
    \/ CreateReport
    \/ SendToSlack
    \/ PostRaises
    \/ PostAnswered
    \/ Respond
    \/ HandleException

Spec == Init /\ [][Next]_vars

\* analyze_costs alone, on billing answers with many services
NextWide ==
    \/ BillingAddsWideGroup
    \/ BillingReturns
    \/ AnalyzeCosts

SpecWide == InitWide /\ [][NextWide]_vars

(***************************************************************************)
(* What the claims speak about.                                            *)
(***************************************************************************)
Called(f) == \E i \in 1..Len(calls) : calls[i] = f
Before(f, g) == \E i, j \in 1..Len(calls) : i < j /\ calls[i] = f /\ calls[j] = g
Done == pc = "done"
Returned(code, text) ==
    /\ Done
    /\ result = [isNone |-> FALSE,
                 val |-> [statusCode |-> code, body |-> <<"\"">> \o text \o <<"\"">>]]

\* The billing query returned data and analyze_costs has gone through it.
Analyzed == api = "data" /\ pc \notin {"fetch", "analyze"}
\* The "YYYY-MM" keys of the data the billing query returned.
KeysPresent == {MonthKey(cost_data.val[i].Start) : i \in 1..Len(cost_data.val)}
Greatest(keys) == CHOOSE k \in keys : \A j \in keys : j = k \/ StrLess(j, k)
\* analyze_costs returned a comparison (None only if it returned early or raised).
Compared == Analyzed /\ ~top_10_comparison.isNone
CurrentCosts == DictLookup(monthly_costs.val, current_month.val)
PreviousCosts == DictLookup(monthly_costs.val, previous_month.val)
\* The greatest monthly total of the table is 0.
MaxTotalIsZero ==
    LET totals == {SumValues(monthly_costs.val[i].value) : i \in 1..Len(monthly_costs.val)}
    IN  0 \in totals /\ \A t \in totals : t <= 0
NonNegativeAmounts ==
    \A i \in 1..Len(monthly_costs.val) :
        \A j \in 1..Len(monthly_costs.val[i].value) : monthly_costs.val[i].value[j].value >= 0

(***************************************************************************)
(* C1: in one invocation the billing query is called at most once and the  *)
(* POST is attempted at most once; a POST is attempted only after the      *)
(* billing query returned data and analyze_costs and create_report         *)
(* completed, in that order, and never after a failure of the billing      *)
(* query or of the computation.                                            *)
(***************************************************************************)
C1_OneQueryOnePostInOrder ==
    /\ Count(calls, "get_cost_and_usage") <= 1
    /\ Count(calls, "urlopen") <= 1
    /\ Called("urlopen") =>
          /\ api = "data"
          /\ ~top_10_comparison.isNone
          /\ ~report.isNone
          /\ Before("get_cost_and_usage", "create_report")
          /\ Before("create_report", "send_to_slack")
          /\ Before("send_to_slack", "urlopen")
    /\ (api \in BillingErrors \/ exc # "none") => ~Called("urlopen")

C1_Witness == Done /\ Called("urlopen") /\ http.kind = "response" /\ http.code = 204

(***************************************************************************)
(* C2: when the billing query raises ClientError, lambda_handler returns   *)
(* 500 "Error fetching cost data" and neither create_report nor            *)
(* send_to_slack is invoked.                                               *)
(***************************************************************************)
C2_ProviderErrorIsFetchError ==
    api = "ClientError" =>
        /\ ~Called("create_report")
        /\ ~Called("send_to_slack")
        /\ pc \in {"analyze", "check", "done"}
        /\ Done => Returned(500, <<"Error fetching cost data">>)

C2_Witness == api = "ClientError" /\ Done

(***************************************************************************)
(* C3: when SLACK_WEBHOOK_URL is unset or empty, send_to_slack returns     *)
(* None without any network call and lambda_handler returns 500            *)
(* "Error sending report to Slack".                                        *)
(***************************************************************************)
C3_MissingUrlIsSlackError ==
    (Called("send_to_slack") /\ (slack_webhook_url.isNone \/ slack_webhook_url.val = "")) =>
        /\ ~Called("urlopen")
        /\ http.kind = "none"
        /\ slack_response.isNone
        /\ pc \in {"respond", "done"}
        /\ Done => Returned(500, <<"Error sending report to Slack">>)

C3_Witness ==
    Done /\ Called("send_to_slack") /\ ~slack_webhook_url.isNone /\ slack_webhook_url.val = ""

(***************************************************************************)
(* C4: whenever the webhook answers the POST with status 200, whatever the *)
(* body, send_to_slack returns the body and lambda_handler returns 200;    *)
(* lambda_handler returns 200 only then, and 500 for another status or an  *)
(* exception of the transport.                                             *)
(***************************************************************************)
C4_Status200IsSuccess ==
    /\ (http.kind = "response" /\ http.code = 200) =>
          /\ slack_response = [isNone |-> FALSE, val |-> http.body]
          /\ Done => result.val.statusCode = 200
    /\ (Done /\ result.val.statusCode = 200) => (http.kind = "response" /\ http.code = 200)
    /\ (Done /\ (http.kind = "exception" \/ (http.kind = "response" /\ http.code # 200))) =>
          result.val.statusCode = 500

(***************************************************************************)
(* C5: every invocation ends with statusCode 200 or 500.  An exception     *)
(* that reaches lambda_handler (the month index out of range for data of   *)
(* one distinct month, the division by zero of the chart when the greatest *)
(* monthly total is 0, any other) is caught: the run returns 500           *)
(* "Unexpected error: <message>", no exception leaves the handler and no   *)
(* POST is made.                                                           *)
(***************************************************************************)
C5_AlwaysAStatus ==
    /\ pc # "raised"
    /\ Done => (~result.isNone /\ result.val.statusCode \in {200, 500})
    /\ ~Done => result.isNone
    /\ exc # "none" =>
          /\ ~Called("urlopen")
          /\ Done => Returned(500, <<"Unexpected error: ", ExcMessage(exc)>>)
    /\ (Done /\ api = "data" /\ Cardinality(KeysPresent) = 1) =>
          Returned(500, <<"Unexpected error: ", "list index out of range">>)
    /\ (Done /\ Compared /\ top_10_comparison.val # <<>> /\ MaxTotalIsZero) =>
          Returned(500, <<"Unexpected error: ", "float division by zero">>)
    /\ pc \in {"fetch", "analyze", "check", "report", "send", "post", "respond",
              "except", "done"}

C5_Witness == Done /\ exc = "ZeroDivisionError" /\ Len(monthly_costs.val) >= 2

(***************************************************************************)
(* C6: for billing data with at least 2 distinct "YYYY-MM" keys, in any    *)
(* order of the entries, current_month is the greatest key present and     *)
(* previous_month the second greatest.                                     *)
(***************************************************************************)
C6_TwoGreatestMonths ==
    (Analyzed /\ Cardinality(KeysPresent) >= 2) =>
        /\ current_month = [isNone |-> FALSE, val |-> Greatest(KeysPresent)]
        /\ previous_month =
              [isNone |-> FALSE, val |-> Greatest(KeysPresent \ {Greatest(KeysPresent)})]

\* three distinct months, the latest of them first in the answer
C6_Witness ==
    /\ Analyzed
    /\ Cardinality(KeysPresent) = 3
    /\ MonthKey(cost_data.val[1].Start) = Greatest(KeysPresent)
    /\ pc = "report"

(***************************************************************************)
(* C7: the comparison has exactly min(10, services of the current month)   *)
(* entries, all of them services of the current month with their current   *)
(* amount, in descending order of that amount, and no service left out has *)
(* a current amount greater than a service of the comparison.              *)
(***************************************************************************)
C7_TopTenDescending ==
    Compared =>
        LET top == top_10_comparison.val
            cur == CurrentCosts
        IN  /\ Len(top) = Min(10, Len(cur))
            /\ \A i, j \in 1..Len(top) : i # j => top[i].key # top[j].key
            /\ \A i \in 1..Len(top) :
                  /\ DictHas(cur, top[i].key)
                  /\ top[i].value.current = DictLookup(cur, top[i].key)
            /\ \A i, j \in 1..Len(top) : i < j => top[i].value.current >= top[j].value.current
            /\ \A k \in 1..Len(cur) :
                  (\A i \in 1..Len(top) : top[i].key # cur[k].key) =>
                      \A i \in 1..Len(top) : cur[k].value <= top[i].value.current

\* eleven services, the cheapest first in the answer, a dearer one left out
C7_Witness ==
    /\ Compared
    /\ Len(CurrentCosts) = 11
    /\ Len(top_10_comparison.val) = 10
    /\ CurrentCosts[1].value = 1
    /\ top_10_comparison.val[1].value.current = 2
    /\ top_10_comparison.val[10].value.current = 2

(***************************************************************************)
(* C8: for every comparison entry, change = current - previous; a service  *)
(* absent from the previous month has previous = 0 and, if its current     *)
(* amount is > 0, percent_change = +infinity; otherwise percent_change =   *)
(* change / previous x 100, and it is +infinity exactly when previous = 0. *)
(***************************************************************************)
C8_PercentChange ==
    Compared =>
        \A i \in 1..Len(top_10_comparison.val) :
            LET service == top_10_comparison.val[i].key
                e == top_10_comparison.val[i].value
            IN  /\ e.change = e.current - e.previous
                /\ e.previous = DictGet(PreviousCosts, service, 0)
                /\ (~DictHas(PreviousCosts, service) /\ e.current > 0) => e.percent_change.inf
                /\ e.percent_change.inf <=> e.previous = 0
                /\ ~e.percent_change.inf =>
                      e.percent_change.num * e.previous = e.change * 100 * e.percent_change.den

(***************************************************************************)
(* C9: with non-negative amounts and a greatest monthly total > 0, every   *)
(* bar length is floor(total / greatest total x 20), lies in 0..20, is 20  *)
(* for the month of the greatest total, and a month of smaller total never *)
(* has a longer bar.                                                       *)
(***************************************************************************)
C9_BarsMonotonic ==
    (~chart.isNone /\ NonNegativeAmounts /\ ~MaxTotalIsZero) =>
        LET bars == chart.val
            total(i) == SumValues(DictLookup(monthly_costs.val, bars[i].month))
            greatest == CHOOSE t \in {total(i) : i \in 1..Len(bars)} :
                            \A i \in 1..Len(bars) : total(i) <= t
        IN  /\ Len(bars) = Len(monthly_costs.val)
            /\ \A i \in 1..Len(bars) :
                  /\ bars[i].cost = total(i)
                  /\ bars[i].bar_length = (total(i) * 20) \div greatest
                  /\ bars[i].bar_length \in 0..20
                  /\ total(i) = greatest => bars[i].bar_length = 20
            /\ \A i, j \in 1..Len(bars) :
                  total(i) < total(j) => bars[i].bar_length <= bars[j].bar_length

\* two months whose bars are neither empty nor equal
C9_Witness ==
    /\ ~chart.isNone
    /\ NonNegativeAmounts
    /\ \E i, j \in 1..Len(chart.val) :
          /\ chart.val[i].cost < chart.val[j].cost
          /\ 0 < chart.val[i].bar_length
          /\ chart.val[i].bar_length < chart.val[j].bar_length

(***************************************************************************)
(* C10, as claimed: lambda_handler returns "Error fetching cost data" only *)
(* when the billing query failed or returned an empty sequence; whenever   *)
(* the query returned at least 2 months, the run reaches create_report and *)
(* send_to_slack.                                                          *)
(***************************************************************************)
C10_FetchErrorOnlyWithoutData ==
    /\ Returned(500, <<"Error fetching cost data">>) =>
          (api \in BillingErrors \/ (api = "data" /\ cost_data.val = <<>>))
    /\ (Done /\ api = "data" /\ Cardinality(KeysPresent) >= 2) =>
          (Called("create_report") /\ Called("send_to_slack"))

(***************************************************************************)
(* C10, amended: lambda_handler returns "Error fetching cost data" only    *)
(* when the billing query failed, returned an empty sequence, or returned  *)
(* data whose latest month has no service; whenever the query returned at  *)
(* least 2 distinct months and the latest has a service, the run reaches   *)
(* create_report, and send_to_slack too unless the greatest monthly total  *)
(* is 0.                                                                   *)
(***************************************************************************)
C10_FetchErrorOrEmptyMonth ==
    /\ Returned(500, <<"Error fetching cost data">>) =>
          \/ api \in BillingErrors
          \/ api = "data" /\ cost_data.val = <<>>
          \/ api = "data" /\ Cardinality(KeysPresent) >= 2 /\ CurrentCosts = <<>>
    /\ (Done /\ api = "data" /\ Cardinality(KeysPresent) >= 2 /\ CurrentCosts # <<>>) =>
          /\ Called("create_report")
          /\ ~MaxTotalIsZero => Called("send_to_slack")

C10_Witness ==
    /\ Returned(500, <<"Error fetching cost data">>)
    /\ api = "data"
    /\ Cardinality(KeysPresent) >= 2

====
